---- MODULE Spec2Model ----
(***************************************************************************)
(* Model of thrashe: a set-associative cache emulator (src/src/thrashe.rs) *)
(* behind process-wide provider slots (src/src/provider.rs).               *)
(*                                                                         *)
(* Machine integers (u32 counters and fields, the u64 line word, u64       *)
(* addresses) are modelled at their true width as the set of positions of  *)
(* their 1 bits: bit i of a value is set iff i is in the set.  Shifts,     *)
(* masks, truncating casts and the wrapping increment are then exact.      *)
(***************************************************************************)
EXTENDS Integers, Sequences, FiniteSets, TLC

VARIABLES
    slot,       \* provider.rs: per channel, the static RwLock<Option<CacheState>>
    result,     \* the value returned by the last provider / wrapper call
    log,        \* history: per channel, the addresses touched on the installed state
    threads,    \* per thread, the locals of its touch_address call in flight
    reporter,   \* the locals of the get_report call in flight
    done,       \* history: touch_address calls completed on the installed state
    overlapped, \* history: two of those calls were in flight at once
    calls,      \* history: configure, get_report and finish calls begun
    finished,   \* history: per channel, finish was called and no configure since
    cache,      \* a CacheState owned directly (as the tests build with from_spec)
    lastInSet,  \* history: per set of `cache`, the address touched last in it
    installedBy, \* history: per line of `cache`, the address whose miss installed it
    lastWritten, \* history: the recency the last touch of `cache` wrote into a line
    lastWay,    \* history: per set of `cache`, the line touched last (-1: none yet)
    panicked,   \* a touch indexed `sets` out of range (Rust panics)
    step,       \* loop index i of the scenario being run
    base,       \* a_base of the scenario being run
    line,       \* one CacheLineCompact word
    val,        \* the CacheLine handed to pack_store
    returned,   \* the CacheLine fetch_unpack returned
    pc          \* position of the pack/unpack sequence

vars == <<slot, result, log, finished, threads, reporter, done, overlapped,
          calls, cache, lastInSet, installedBy,
          lastWritten, lastWay, panicked, step, base, line, val, returned, pc>>

\* the channels' slots and their history
providerVars == <<slot, log, finished, threads, reporter, done, overlapped,
                  calls>>

\* the calls in flight on the GlobalCache channel and their history
threadVars == <<threads, reporter, done, overlapped, calls>>

\* the directly owned cache state and its history
ownedVars == <<cache, lastInSet, installedBy, lastWritten, lastWay>>

\* the pack/unpack sequence
packVars == <<line, val, returned, pc>>

----------------------------------------------------------------------------
(* Bounds of the model *)

\* touches allowed on one installed cache state of a channel
MaxTouches == 2

\* dereferences and prefetches of the one wrapper of test::basic
MaxDerefs == 12

\* touches allowed on the directly owned cache state
MaxSeqTouches == 5

----------------------------------------------------------------------------
(* Machine words as sets of bit positions *)

\* bit positions of a u32
W32 == 0..31

\* bit positions of a u64
W64 == 0..63

\* the word of a number 0 <= n < 2^31
ToBits(n) == {i \in 0..30 : (n \div (2^i)) % 2 = 1}

RECURSIVE Val(_)
\* the number of a word below 2^31
Val(w) == IF w = {} THEN 0
          ELSE LET i == CHOOSE j \in w : TRUE IN 2^i + Val(w \ {i})

\* w << k in a word of `width` bits (bits shifted out are lost)
Shl(w, k, width) == {i + k : i \in w} \cap (0..(width - 1))

\* w >> k
Shr(w, k) == {i - k : i \in {j \in w : j >= k}}

\* the comparison the other way round: a > b
Greater(a, b) == \E i \in a \ b : \A j \in (i + 1)..63 : (j \in a) <=> (j \in b)

\* unsigned a < b on words (cand_e < acc_e)
Less(a, b) == \E i \in b \ a : \A j \in (i + 1)..63 : (j \in a) <=> (j \in b)

\* AtomicU32::fetch_add(1): the counter's next value, wrapping at 2^32
fetch_add(w) ==
    LET zeros == W32 \ w IN
    IF zeros = {} THEN {}
    ELSE LET k == CHOOSE z \in zeros : \A y \in zeros : z <= y
         IN (w \ (0..(k - 1))) \cup {k}

\* Option<T>
None == [some |-> FALSE, v |-> {}]
Some(x) == [some |-> TRUE, v |-> x]

----------------------------------------------------------------------------
(* CacheLineCompact *)

\* CacheLineCompact::new
NewLine == {}

\* CacheLineCompact::unpack
unpack(w) ==
    [tag    |-> Shr(w, 32) \cap W32,
     access |-> Shr(w \cap W32, 1),
     valid  |-> 0 \in w]

\* CacheLineCompact::fetch_unpack
fetch_unpack(w) == unpack(w)

\* a variant that shifts the tag by 32 before or-ing the access in
pack_store_wide(value) ==
    LET e1 == Shl(value.tag, 32, 64)
        e2 == e1 \cup value.access
        e3 == Shl(e2, 1, 64)
    IN e3 \cup (IF value.valid THEN {0} ELSE {})

\* CacheLineCompact::pack_store: the word stored into the line
pack_store(value) ==
    LET e1 == Shl(value.tag, 31, 64)
        e2 == e1 \cup value.access
        e3 == Shl(e2, 1, 64)
    IN e3 \cup (IF value.valid THEN {0} ELSE {})

\* a variant whose match keeps the recency field and clears the valid bit
touch_if_matches_clobber(w, cand_tag, epoch_counter) ==
    LET l == unpack(w) IN
    IF l.valid /\ cand_tag = l.tag
    THEN [ok |-> TRUE, err |-> None, val |-> w \ {0},
          epoch_counter |-> fetch_add(epoch_counter)]
    ELSE IF l.valid
    THEN [ok |-> FALSE, err |-> Some(l.access), val |-> w,
          epoch_counter |-> epoch_counter]
    ELSE [ok |-> FALSE, err |-> None, val |-> w, epoch_counter |-> epoch_counter]

\* CacheLineCompact::touch_if_matches on the word w of a line: ok for Ok(()),
\* err for the payload of Err, val for the line's word afterwards and
\* epoch_counter for the shared counter afterwards
touch_if_matches(w, cand_tag, epoch_counter) ==
    LET l == unpack(w) IN
    IF l.valid /\ cand_tag = l.tag
    THEN LET epoch   == Shl(epoch_counter, 1, 32)
             mask    == 1..31
             new_val == (w \ mask) \cup epoch
         IN [ok |-> TRUE, err |-> None, val |-> new_val,
             epoch_counter |-> fetch_add(epoch_counter)]
    ELSE IF l.valid
    THEN [ok |-> FALSE, err |-> Some(l.access), val |-> w,
          epoch_counter |-> epoch_counter]
    ELSE [ok |-> FALSE, err |-> None, val |-> w, epoch_counter |-> epoch_counter]

----------------------------------------------------------------------------
(* CacheSpec *)

\* CacheSpec::set_num
set_num(spec) == 2^(spec.set_num_bits)

\* CacheSpec::lines_per_set
lines_per_set(spec) == 2^(spec.lines_per_set_bits)

\* CacheSpec::block_size
block_size(spec) == 2^(spec.block_size_bits)

\* CacheSpec::size
size(spec) == block_size(spec) * set_num(spec) * lines_per_set(spec)

\* a variant that masks the set index with the set count
split_by_set_num(spec, address) ==
    [set_index |-> (Shr(address, spec.block_size_bits)
                        \cap ToBits(set_num(spec) - 1)) \cap W32,
     tag       |-> Shr(address, spec.block_size_bits + spec.set_num_bits) \cap W32]

\* CacheSpec::split
split(spec, address) ==
    [set_index |-> (Shr(address, spec.block_size_bits)
                        \cap ToBits(block_size(spec) - 1)) \cap W32,
     tag       |-> Shr(address, spec.block_size_bits + spec.set_num_bits) \cap W32]

\* CacheSpec::spec_8kib_32bit_2way
spec_8kib_32bit_2way ==
    [block_size_bits |-> 5, set_num_bits |-> 7, lines_per_set_bits |-> 1]

----------------------------------------------------------------------------
(* CacheState *)

\* CacheState::from_spec
from_spec(spec) ==
    [sets   |-> [s \in 0..(set_num(spec) - 1) |->
                    [l \in 0..(lines_per_set(spec) - 1) |-> NewLine]],
     epoch  |-> {},
     spec   |-> spec,
     hits   |-> {},
     misses |-> {}]

RECURSIVE scan(_, _, _, _, _, _)
\* the for loop of touch_address over the lines i.. of `set`: hit tells
\* whether a line matched, oldest is the victim's position
scan(set, tag, epoch, i, oldest, oldest_epoch) ==
    IF i \notin DOMAIN set
    THEN [hit |-> FALSE, set |-> set, epoch |-> epoch, oldest |-> oldest]
    ELSE LET r == touch_if_matches(set[i], tag, epoch) IN
         IF r.ok
         THEN [hit |-> TRUE, set |-> [set EXCEPT ![i] = r.val],
               epoch |-> r.epoch_counter, oldest |-> oldest]
         ELSE IF ~oldest_epoch.some
         THEN scan(set, tag, epoch, i + 1, oldest, oldest_epoch)
         ELSE IF ~r.err.some
         THEN scan(set, tag, epoch, i + 1, i, None)
         ELSE IF Less(r.err.v, oldest_epoch.v)
         THEN scan(set, tag, epoch, i + 1, i, None)
         ELSE scan(set, tag, epoch, i + 1, oldest, oldest_epoch)

\* whether sets[set_index] of touch_address is in range (else Rust panics)
index_in_range(state, address) ==
    Val(split(state.spec, address).set_index) \in DOMAIN state.sets

\* CacheState::touch_address, for an address whose set index is in range
touch_address(state, address) ==
    LET sp  == split(state.spec, address)
        idx == Val(sp.set_index)
        set == state.sets[idx]
        r   == scan(set, sp.tag, state.epoch, 0, 0,
                    Some(fetch_unpack(set[0]).access))
    IN IF r.hit
       THEN [state EXCEPT !.sets[idx] = r.set,
                          !.epoch = r.epoch,
                          !.hits = fetch_add(@)]
       ELSE LET epoch == Shl(state.epoch, 1, 32) IN
            [state EXCEPT !.sets[idx][r.oldest] =
                              pack_store([tag |-> sp.tag, access |-> epoch,
                                          valid |-> TRUE]),
                          !.epoch = fetch_add(@),
                          !.misses = fetch_add(@)]

\* CacheState::make_report
make_report(state) ==
    [access_count |-> state.epoch,
     hits         |-> state.hits,
     misses       |-> state.misses,
     spec         |-> state.spec]

\* Option<CacheState> / Option<ThrasheReport>: the empty value
Absent == [some |-> FALSE, v |-> <<>>]

----------------------------------------------------------------------------
(* Parts of the state a specification does not use *)

\* provider.rs: the channels: GlobalCache and one declared with new_provider!
Channels == {"GlobalCache", "Other"}

NoCall == [op |-> "none", ch |-> "none", value |-> Absent]

\* the threads that touch the GlobalCache channel concurrently
ThreadIds == {1, 2}

\* a thread outside touch_address
IdleThread ==
    [pc |-> "idle", tag |-> {}, set_index |-> 0, i |-> 0, oldest |-> 0,
     oldest_epoch |-> None, val |-> {}, epoch |-> {}]

\* no get_report in flight; clean: no touch was in flight during the last one
IdleReporter ==
    [pc |-> "idle", access_count |-> {}, hits |-> {}, clean |-> TRUE]

IdleProvider ==
    /\ slot = [c \in Channels |-> Absent]
    /\ log = [c \in Channels |-> <<>>]
    /\ finished = [c \in Channels |-> FALSE]
    /\ threads = [t \in ThreadIds |-> IdleThread]
    /\ reporter = IdleReporter
    /\ done = 0
    /\ overlapped = FALSE
    /\ calls = 0

IdleCache ==
    /\ cache = Absent
    /\ lastInSet = <<>>
    /\ installedBy = <<>>
    /\ lastWritten = None
    /\ lastWay = <<>>

IdleScenario ==
    /\ step = 0
    /\ base = 0

IdlePack ==
    /\ line = NewLine
    /\ val = [tag |-> {}, access |-> {}, valid |-> FALSE]
    /\ returned = Absent
    /\ pc = "idle"

----------------------------------------------------------------------------
(* pack_store followed by fetch_unpack on one line (test::pack_unpack) *)

\* 0xABCDEFAB, the tag of test::pack_unpack
TagABCDEFAB == {0, 1, 3, 5, 7, 8, 9, 10, 11, 13, 14, 15, 16, 18, 19, 22, 23,
                24, 25, 27, 29, 31}

\* 0x0123456, the access of test::pack_unpack
Access0123456 == {1, 2, 4, 6, 10, 12, 13, 17, 20}

\* tags handed to pack_store: 0, 1, 2^31, 2^32 - 1 and the test's
PackTags == {{}, {0}, {31}, W32, TagABCDEFAB}

\* recency values handed to pack_store: 0, 1, 2^30, 2^31 - 1, the test's,
\* and two that do not fit 31 bits: 2^31 and 2^32 - 1
PackAccesses == {{}, {0}, {30}, 0..30, Access0123456, {31}, W32}

PackInit ==
    /\ line = NewLine
    /\ val \in [tag : PackTags, access : PackAccesses, valid : BOOLEAN]
    /\ returned = Absent
    /\ pc = "new"
    /\ IdleProvider /\ IdleCache /\ IdleScenario
    /\ result = NoCall /\ panicked = FALSE

\* line.pack_store(val.clone())
PackStore ==
    /\ pc = "new"
    /\ line' = pack_store(val)
    /\ pc' = "stored"
    /\ UNCHANGED <<providerVars, ownedVars, result, panicked, step, base,
                   val, returned>>

\* let returned = line.fetch_unpack()
FetchUnpack ==
    /\ pc = "stored"
    /\ returned' = [some |-> TRUE, v |-> fetch_unpack(line)]
    /\ pc' = "fetched"
    /\ UNCHANGED <<providerVars, ownedVars, result, panicked, step, base,
                   line, val>>

PackNext == PackStore \/ FetchUnpack

SpecPack == PackInit /\ [][PackNext]_vars

\* C10: packing then unpacking (t, r, v) with r < 2^31 returns exactly (t, r, v)
PackUnpackRoundTrip ==
    (pc = "fetched" /\ val.access \subseteq 0..30) => returned.v = val

\* the triple of test::pack_unpack has come back unchanged
PackUnpackRoundTripWitness ==
    /\ pc = "fetched"
    /\ val = [tag |-> TagABCDEFAB, access |-> Access0123456, valid |-> TRUE]
    /\ returned.v = val

----------------------------------------------------------------------------
(* Touches on a directly owned CacheState (tests trashing, linear_access) *)

\* let element_size = 8
element_size == 8

\* let a_base = 4200
a_base == 4200

\* let array_size = 512
array_size == 512

\* for i in 0..12
thrash_rounds == 12

\* for i in 0..128
linear_count == 128

\* the caller's cache.touch_address(address): the call returns with the state
\* updated, or panics on sets[set_index] and leaves the state as it was
touch_outcome(state, address) ==
    IF index_in_range(state, address)
    THEN [state |-> touch_address(state, address), panic |-> FALSE]
    ELSE [state |-> state, panic |-> TRUE]

\* the line a touch_address(address) in range writes: the first line of the
\* set that is valid with the address's tag (a hit), else the victim
touch_target(state, address) ==
    LET sp  == split(state.spec, address)
        set == state.sets[Val(sp.set_index)]
        matching == {l \in DOMAIN set :
                        unpack(set[l]).valid /\ unpack(set[l]).tag = sp.tag}
    IN IF matching # {}
       THEN [hit |-> TRUE,
             way |-> CHOOSE l \in matching : \A m \in matching : l <= m]
       ELSE [hit |-> FALSE,
             way |-> scan(set, sp.tag, state.epoch, 0, 0,
                          Some(fetch_unpack(set[0]).access)).oldest]

\* cache.touch_address(address) on the owned state, with the history
\* variables following the completed touches
TouchOwned(address) ==
    LET o == touch_outcome(cache.v, address)
        idx == Val(split(cache.v.spec, address).set_index)
        t == touch_target(cache.v, address)
    IN /\ cache.some
       /\ cache' = [cache EXCEPT !.v = o.state]
       /\ panicked' = (panicked \/ o.panic)
       /\ lastInSet' = IF o.panic THEN lastInSet
                       ELSE [lastInSet EXCEPT ![idx] = Some(address)]
       /\ installedBy' = IF o.panic \/ t.hit THEN installedBy
                         ELSE [installedBy EXCEPT ![idx][t.way] = Some(address)]
       /\ lastWritten' = IF o.panic THEN lastWritten
                         ELSE Some(fetch_unpack(o.state.sets[idx][t.way]).access)
       /\ lastWay' = IF o.panic THEN lastWay ELSE [lastWay EXCEPT ![idx] = t.way]

\* let report = cache.make_report()
ReportOwned ==
    /\ cache.some
    /\ result = NoCall
    /\ result' = [op |-> "make_report", ch |-> "none",
                  value |-> [some |-> TRUE, v |-> make_report(cache.v)]]

\* CacheState::from_spec(spec) owned by the caller, nothing touched yet
OwnedFresh(spec) ==
    /\ cache = [some |-> TRUE, v |-> from_spec(spec)]
    /\ lastInSet = [i \in 0..(set_num(spec) - 1) |-> None]
    /\ installedBy = [i \in 0..(set_num(spec) - 1) |->
                         [l \in 0..(lines_per_set(spec) - 1) |-> None]]
    /\ lastWritten = None
    /\ lastWay = [i \in 0..(set_num(spec) - 1) |-> -1]

(* test::linear_access *)

LinearInit ==
    /\ OwnedFresh(spec_8kib_32bit_2way)
    /\ step = 0
    /\ base = a_base
    /\ IdleProvider /\ IdlePack
    /\ result = NoCall /\ panicked = FALSE

\* one iteration of the loop: cache.touch_address(a_base + element_size * i)
LinearTouch ==
    /\ step < linear_count
    /\ TouchOwned(ToBits(base + element_size * step))
    /\ step' = step + 1
    /\ UNCHANGED <<providerVars, packVars, result, base>>

\* after the loop: cache.make_report()
LinearReport ==
    /\ step = linear_count
    /\ ReportOwned
    /\ UNCHANGED <<providerVars, ownedVars, packVars, panicked, step, base>>

LinearNext == LinearTouch \/ LinearReport

SpecLinear == LinearInit /\ [][LinearNext]_vars

(* test::trashing *)

\* a_base of the run: the test's, and bases at other offsets in a block
ThrashBases == {a_base, 0, 4090, 8000}

ThrashInit ==
    /\ OwnedFresh(spec_8kib_32bit_2way)
    /\ step = 0
    /\ base \in ThrashBases
    /\ IdleProvider /\ IdlePack
    /\ result = NoCall /\ panicked = FALSE

\* the address of the step-th touch: a_addr, b_addr, c_addr of round i
ThrashAddr(b, k) ==
    LET i == k \div 3
        which == k % 3
    IN b + which * (array_size * element_size) + element_size * i

\* the next touch_address of the loop body
ThrashTouch ==
    /\ step < 3 * thrash_rounds
    /\ TouchOwned(ToBits(ThrashAddr(base, step)))
    /\ step' = step + 1
    /\ UNCHANGED <<providerVars, packVars, result, base>>

\* after the loop: cache.make_report()
ThrashReport ==
    /\ step = 3 * thrash_rounds
    /\ ReportOwned
    /\ UNCHANGED <<providerVars, ownedVars, packVars, panicked, step, base>>

ThrashNext == ThrashTouch \/ ThrashReport

SpecThrash == ThrashInit /\ [][ThrashNext]_vars

\* C3: linear access: touching 4200 + 8*i for i = 0..127 on a fresh preset
\* state gives a report with access count 128, hits 96 and misses 32
LinearAccessCounts ==
    result.op = "make_report" =>
        /\ result.value.v.access_count = ToBits(128)
        /\ result.value.v.hits = ToBits(96)
        /\ result.value.v.misses = ToBits(32)

\* the report has been made after the 128 touches
LinearAccessWitness ==
    /\ result.op = "make_report"
    /\ step = linear_count
    /\ base = 4200
    /\ result.value.v.spec = spec_8kib_32bit_2way
    /\ ~panicked

\* C4: thrashing: cycling through three blocks of one set with three tags in
\* a 2-way set makes every touch a miss; with a_base = 4200 the report after
\* the 36 touches has access count 36, misses 36 and hits 0
ThrashAllMisses ==
    /\ cache.v.hits = {}
    /\ cache.v.misses = ToBits(step)
    /\ cache.v.epoch = ToBits(step)
    /\ (result.op = "make_report" /\ base = 4200) =>
           /\ result.value.v.access_count = ToBits(36)
           /\ result.value.v.misses = ToBits(36)
           /\ result.value.v.hits = {}

\* the report has been made after the 36 touches of the test's addresses
ThrashWitness ==
    /\ result.op = "make_report"
    /\ base = 4200
    /\ step = 36
    /\ result.value.v.misses = ToBits(36)
    /\ ~panicked

----------------------------------------------------------------------------
(* Any sequence of touches on a directly owned CacheState *)

\* a geometry with 2 sets of 2 lines and 2-byte blocks
TinySpec == [block_size_bits |-> 1, set_num_bits |-> 1, lines_per_set_bits |-> 1]

\* a geometry with 2 sets of 4 lines and 2-byte blocks
FourWaySpec == [block_size_bits |-> 1, set_num_bits |-> 1, lines_per_set_bits |-> 2]

\* a geometry with 2 sets of 1 line and 4-byte blocks (more block-size bits
\* than set-count bits)
WideBlockSpec == [block_size_bits |-> 2, set_num_bits |-> 1, lines_per_set_bits |-> 0]

\* geometries handed to from_spec
SeqGeoms == {spec_8kib_32bit_2way, TinySpec, FourWaySpec, WideBlockSpec}

\* addresses handed to touch_address.  Under the preset: 4200 and 4202 lie
\* in one block (set 3, tag 1); 5224 is another block of set 3 with tag 1;
\* 8296 is set 3, tag 2; 12392 is set 3, tag 3; 4232 is set 4, tag 1.  Under
\* TinySpec 4202 is in set 1 and the others in set 0, with different tags.
SeqAddrs == {ToBits(4200), ToBits(4202), ToBits(5224), ToBits(8296),
             ToBits(12392), ToBits(4232)}

\* 2^30 - 1
LongRun == 0..29

\* The state from_spec(spec) is in after Val(n1) + 1 touches of `address`
\* and no others (n1 # 0): the first touch misses with epoch 0 and installs
\* line 0 of the set, each later one matches it and stores its epoch, the
\* last one storing n1.
WarmedUp(spec, address, n1) ==
    LET sp  == split(spec, address)
        idx == Val(sp.set_index)
        w0  == pack_store([tag |-> sp.tag, access |-> {}, valid |-> TRUE])
    IN [from_spec(spec) EXCEPT
            !.sets[idx][0] = (w0 \ (1..31)) \cup Shl(n1, 1, 32),
            !.epoch = fetch_add(n1),
            !.hits = n1,
            !.misses = {0}]

\* a fresh state, or one that has served 2^30 touches of address 4200 (where
\* the geometry has a set for that address)
SeqInit ==
    /\ \E g \in SeqGeoms :
          \/ OwnedFresh(g)
          \/ /\ index_in_range(from_spec(g), ToBits(4200))
             /\ cache = [some |-> TRUE, v |-> WarmedUp(g, ToBits(4200), LongRun)]
             /\ lastInSet = [i \in 0..(set_num(g) - 1) |->
                               IF i = Val(split(g, ToBits(4200)).set_index)
                               THEN Some(ToBits(4200)) ELSE None]
             /\ installedBy = [i \in 0..(set_num(g) - 1) |->
                                 [l \in 0..(lines_per_set(g) - 1) |->
                                    IF i = Val(split(g, ToBits(4200)).set_index)
                                       /\ l = 0
                                    THEN Some(ToBits(4200)) ELSE None]]
             /\ lastWritten = Some(LongRun)
             /\ lastWay = [i \in 0..(set_num(g) - 1) |->
                             IF i = Val(split(g, ToBits(4200)).set_index)
                             THEN 0 ELSE -1]
    /\ step = 0
    /\ base = 0
    /\ IdleProvider /\ IdlePack
    /\ result = NoCall /\ panicked = FALSE

\* cache.touch_address(address)
SeqTouch(address) ==
    /\ step < MaxSeqTouches
    /\ TouchOwned(address)
    /\ step' = step + 1
    /\ UNCHANGED <<providerVars, packVars, result, base>>

SeqNext == \E address \in SeqAddrs : SeqTouch(address)

SpecSeq == SeqInit /\ [][SeqNext]_vars

\* WarmedUp is the state the code reaches: a state reached from from_spec by
\* touches that made one miss and at least one hit is WarmedUp of one of the
\* addresses touched
WarmedUpIsReached ==
    (cache.v.epoch = ToBits(step) /\ cache.v.misses = {0} /\ cache.v.hits # {})
        => \E a \in SeqAddrs : cache.v = WarmedUp(cache.v.spec, a, cache.v.hits)

\* C2: a touch of the address that was touched last in its set is a hit
HitAfterHit ==
    [][\A a \in SeqAddrs :
          (/\ SeqTouch(a)
           /\ index_in_range(cache.v, a)
           /\ lastInSet[Val(split(cache.v.spec, a).set_index)] = Some(a))
          => (/\ cache'.v.hits = fetch_add(cache.v.hits)
              /\ cache'.v.misses = cache.v.misses)]_vars

\* C12: under the preset geometry a touch of address a is a hit only if the
\* matching line was installed by a touch of an address of a's block (the
\* same address >> block_size_bits)
HitOnlyOnOwnBlock ==
    [][\A a \in SeqAddrs :
          LET t   == touch_target(cache.v, a)
              idx == Val(split(cache.v.spec, a).set_index)
          IN (/\ SeqTouch(a)
              /\ cache.v.spec = spec_8kib_32bit_2way
              /\ cache'.v.hits = fetch_add(cache.v.hits))
             => (/\ installedBy[idx][t.way].some
                 /\ Shr(installedBy[idx][t.way].v, cache.v.spec.block_size_bits)
                        = Shr(a, cache.v.spec.block_size_bits))]_vars

\* C13: the recency a touch writes into a line (a hit into the matching
\* line, a miss into the victim) is strictly greater than the recency the
\* touch before it wrote
RecencyIncreases ==
    [][\A a \in SeqAddrs :
          (/\ SeqTouch(a)
           /\ index_in_range(cache.v, a)
           /\ lastWritten.some)
          => Less(lastWritten.v, lastWritten'.v)]_vars

\* C15: under the 2-way preset a miss in a set whose two lines are valid
\* does not overwrite the line touched last in that set (it overwrites the
\* other one, whose last touch is older)
EvictsLeastRecent ==
    [][\A a \in SeqAddrs :
          LET idx == Val(split(cache.v.spec, a).set_index)
              set == cache.v.sets[idx]
          IN (/\ SeqTouch(a)
              /\ cache.v.spec = spec_8kib_32bit_2way
              /\ cache'.v.misses = fetch_add(cache.v.misses)
              /\ \A l \in DOMAIN set : unpack(set[l]).valid)
             => (/\ cache'.v.sets[idx][lastWay[idx]] = set[lastWay[idx]]
                 /\ \E l \in DOMAIN set : cache'.v.sets[idx][l] # set[l])]_vars

\* C14: a miss in a set that still has an invalid line installs the new tag
\* into an invalid line (no valid line is overwritten while its set has an
\* empty slot), for every associativity
EmptySlotFirst ==
    [][\A a \in SeqAddrs :
          LET set == cache.v.sets[Val(split(cache.v.spec, a).set_index)]
              t   == touch_target(cache.v, a)
          IN (/\ SeqTouch(a)
              /\ cache'.v.misses = fetch_add(cache.v.misses)
              /\ \E l \in DOMAIN set : ~unpack(set[l]).valid)
             => ~unpack(set[t.way]).valid]_vars

\* C18: the frame of a touch.  A hit changes only the recency field of the
\* matching line and the access and hit counters; a miss overwrites exactly
\* one line of the address's set with (tag of the address, valid) and
\* changes the access and miss counters; every other line, the geometry and
\* the other counter stay as they were
FrameOfTouch ==
    [][\A a \in SeqAddrs :
          LET sp  == split(cache.v.spec, a)
              idx == Val(sp.set_index)
              t   == touch_target(cache.v, a)
              old == unpack(cache.v.sets[idx][t.way])
              new == unpack(cache'.v.sets[idx][t.way])
          IN (SeqTouch(a) /\ index_in_range(cache.v, a))
             => (/\ cache'.v.spec = cache.v.spec
                 /\ cache'.v.epoch = fetch_add(cache.v.epoch)
                 /\ \A i \in DOMAIN cache.v.sets : \A l \in DOMAIN cache.v.sets[i] :
                        (i # idx \/ l # t.way)
                            => cache'.v.sets[i][l] = cache.v.sets[i][l]
                 /\ IF t.hit
                    THEN /\ new.tag = old.tag /\ new.valid = old.valid
                         /\ cache'.v.hits = fetch_add(cache.v.hits)
                         /\ cache'.v.misses = cache.v.misses
                    ELSE /\ new.tag = sp.tag /\ new.valid
                         /\ cache'.v.misses = fetch_add(cache.v.misses)
                         /\ cache'.v.hits = cache.v.hits)]_vars

\* C19: for every geometry and every address the set index split computes is
\* smaller than the number of sets from_spec allocated, and no touch fails on
\* an index out of range
SetIndexInRange ==
    /\ ~panicked
    /\ cache.some => \A a \in SeqAddrs : index_in_range(cache.v, a)

----------------------------------------------------------------------------
(* The provider's channels and the wrapper (provider.rs, Thrashe) *)

\* a variant in which every provider hands out GlobalCache's static
get_cache_shared(c) == "GlobalCache"

\* CacheProvider::get_cache: the static STATE of provider c
get_cache(c) == c

\* a variant that reports the state it has just installed
configure_reports_new(opt, spec) ==
    [slot |-> [some |-> TRUE, v |-> from_spec(spec)],
     ret  |-> IF opt.some
              THEN [some |-> TRUE, v |-> make_report(from_spec(spec))]
              ELSE Absent]

\* CacheProvider::configure on the slot's content opt:
\* write().unwrap().replace(CacheState::from_spec(spec)).map(|s| s.make_report())
configure(opt, spec) ==
    [slot |-> [some |-> TRUE, v |-> from_spec(spec)],
     ret  |-> IF opt.some
              THEN [some |-> TRUE, v |-> make_report(opt.v)]
              ELSE Absent]

\* a variant that takes the state out of the slot
get_report_takes(opt) ==
    [slot |-> Absent,
     ret  |-> IF opt.some
              THEN [some |-> TRUE, v |-> make_report(opt.v)]
              ELSE Absent]

\* CacheProvider::get_report: read().unwrap().as_ref().map(|s| s.make_report())
get_report(opt) ==
    [slot |-> opt,
     ret  |-> IF opt.some
              THEN [some |-> TRUE, v |-> make_report(opt.v)]
              ELSE Absent]

\* a variant that leaves the state in the slot
finish_keeps(opt) ==
    [slot |-> opt,
     ret  |-> IF opt.some
              THEN [some |-> TRUE, v |-> make_report(opt.v)]
              ELSE Absent]

\* CacheProvider::finish: write().unwrap().take().map(|s| s.make_report())
finish(opt) ==
    [slot |-> Absent,
     ret  |-> IF opt.some
              THEN [some |-> TRUE, v |-> make_report(opt.v)]
              ELSE Absent]

\* a variant that builds a preset state when the slot is empty
wrapper_touch_installs(opt, address) ==
    LET st == IF opt.some THEN opt.v ELSE from_spec(spec_8kib_32bit_2way)
        o  == touch_outcome(st, address)
    IN [slot |-> [some |-> TRUE, v |-> o.state], touched |-> opt.some /\ ~o.panic,
        panic |-> o.panic]

\* the body shared by Thrashe::prefetch and Deref::deref:
\* if let Some(state) = <the slot's content> { state.touch_address(address) }
\* (the lock is never poisoned: no writer panics)
wrapper_touch(opt, address) ==
    IF opt.some
    THEN LET o == touch_outcome(opt.v, address)
         IN [slot |-> [some |-> TRUE, v |-> o.state], touched |-> ~o.panic,
             panic |-> o.panic]
    ELSE [slot |-> opt, touched |-> FALSE, panic |-> FALSE]

\* a direct-mapped geometry: 4 sets of 1 line, 4-byte blocks
DirectSpec == [block_size_bits |-> 2, set_num_bits |-> 2, lines_per_set_bits |-> 0]

\* geometries handed to configure
ProviderGeoms == {TinySpec, DirectSpec}

\* addresses of the wrappers: two blocks of one set with different tags
Wrappers == {ToBits(4200), ToBits(8296)}

\* C::configure(spec)
ConfigureCall(c, spec) ==
    LET k == get_cache(c)
        r == configure(slot[k], spec)
    IN /\ result' = [op |-> "configure", ch |-> c, value |-> r.ret]
       /\ slot' = [slot EXCEPT ![k] = r.slot]
       /\ log' = [log EXCEPT ![k] = <<>>]
       /\ finished' = [finished EXCEPT ![k] = FALSE]
       /\ UNCHANGED <<threadVars, ownedVars, packVars, panicked, step, base>>

\* C::get_report()
GetReportCall(c) ==
    LET k == get_cache(c)
        r == get_report(slot[k])
    IN /\ result' = [op |-> "get_report", ch |-> c, value |-> r.ret]
       /\ slot' = [slot EXCEPT ![k] = r.slot]
       /\ UNCHANGED <<log, finished, threadVars, ownedVars, packVars, panicked,
                       step, base>>

\* C::finish()
FinishCall(c) ==
    LET k == get_cache(c)
        r == finish(slot[k])
    IN /\ result' = [op |-> "finish", ch |-> c, value |-> r.ret]
       /\ slot' = [slot EXCEPT ![k] = r.slot]
       /\ log' = [log EXCEPT ![k] = <<>>]
       /\ finished' = [finished EXCEPT ![k] = TRUE]
       /\ UNCHANGED <<threadVars, ownedVars, packVars, panicked, step, base>>

\* a dereference (op = "deref") or Thrashe::prefetch (op = "prefetch") of a
\* wrapper of channel c stored at `address`
WrapperCall(op, c, address) ==
    LET k == get_cache(c)
        r == wrapper_touch(slot[k], address)
    IN /\ result' = [op |-> op, ch |-> c, value |-> Absent]
       /\ slot' = [slot EXCEPT ![k] = r.slot]
       /\ log' = IF r.touched THEN [log EXCEPT ![k] = Append(@, address)] ELSE log
       /\ panicked' = (panicked \/ r.panic)
       /\ UNCHANGED <<finished, threadVars, ownedVars, packVars, step, base>>

Init ==
    /\ IdleProvider /\ IdleCache /\ IdleScenario /\ IdlePack
    /\ result = NoCall /\ panicked = FALSE

Configure(c, spec) == ConfigureCall(c, spec)

GetReport(c) == GetReportCall(c)

Finish(c) == FinishCall(c)

\* *wrapper
Deref(c, address) ==
    /\ Len(log[c]) < MaxTouches
    /\ WrapperCall("deref", c, address)

\* Thrashe::prefetch(&wrapper)
Prefetch(c, address) ==
    /\ Len(log[c]) < MaxTouches
    /\ WrapperCall("prefetch", c, address)

Next ==
    \E c \in Channels :
        \/ \E spec \in ProviderGeoms : Configure(c, spec)
        \/ GetReport(c)
        \/ Finish(c)
        \/ \E address \in Wrappers : Deref(c, address)
        \/ \E address \in Wrappers : Prefetch(c, address)

Spec == Init /\ [][Next]_vars

\* the report of the state st, field by field
ReportOf(st) ==
    [access_count |-> st.epoch, hits |-> st.hits, misses |-> st.misses,
     spec |-> st.spec]

\* st is a state built for geometry g that no touch has reached: the set
\* and line counts are g's, every line is invalid, the counters are zero
Untouched(st, g) ==
    /\ st.spec = g
    /\ DOMAIN st.sets = 0..(2^(g.set_num_bits) - 1)
    /\ \A i \in DOMAIN st.sets :
          /\ DOMAIN st.sets[i] = 0..(2^(g.lines_per_set_bits) - 1)
          /\ \A l \in DOMAIN st.sets[i] :
                fetch_unpack(st.sets[i][l]) =
                    [tag |-> {}, access |-> {}, valid |-> FALSE]
    /\ st.epoch = {} /\ st.hits = {} /\ st.misses = {}

\* C5: configure(G2) returns nothing on an unconfigured channel and otherwise
\* the report of the replaced state (its counters count the touches made on
\* it); afterwards the channel holds an untouched state of geometry G2
ConfigureReplaces ==
    [][\A c \in Channels : \A g \in ProviderGeoms :
          Configure(c, g) =>
              /\ ~slot[c].some => ~result'.value.some
              /\ slot[c].some =>
                    /\ result'.value.some
                    /\ result'.value.v = ReportOf(slot[c].v)
                    /\ result'.value.v.access_count = ToBits(Len(log[c]))
              /\ slot'[c].some
              /\ Untouched(slot'[c].v, g)
              /\ log'[c] = <<>>]_vars

\* a configure has replaced a touched state by one of another geometry
ConfigureReplacesWitness ==
    /\ result.op = "configure"
    /\ result.value.some
    /\ result.value.v.access_count = ToBits(2)
    /\ result.value.v.hits = ToBits(1)
    /\ result.value.v.spec = TinySpec
    /\ slot[result.ch].some
    /\ slot[result.ch].v.spec = DirectSpec
    /\ slot[result.ch].v.epoch = {}

\* C6: finish returns the report of the current state, or nothing on an
\* unconfigured channel, and leaves the channel unconfigured; after a finish
\* and until the next configure, finish and get_report return nothing
FinishEmpties ==
    [][\A c \in Channels :
          /\ Finish(c) =>
                /\ ~slot[c].some => ~result'.value.some
                /\ slot[c].some =>
                      /\ result'.value.some
                      /\ result'.value.v = ReportOf(slot[c].v)
                /\ ~slot'[c].some
          /\ (finished[c] /\ (Finish(c) \/ GetReport(c))) =>
                (~result'.value.some /\ ~slot'[c].some)]_vars

\* a finish has returned the report of a touched state
FinishEmptiesWitness ==
    /\ result.op = "finish"
    /\ result.value.some
    /\ result.value.v.access_count = ToBits(2)
    /\ finished[result.ch]
    /\ ~slot[result.ch].some

\* C7: get_report changes nothing; it returns nothing iff the channel is
\* unconfigured and otherwise the counters and geometry of the current state
\* (so two calls with no touch in between return equal reports)
GetReportReadsOnly ==
    [][\A c \in Channels :
          GetReport(c) =>
              /\ slot' = slot /\ log' = log /\ finished' = finished
              /\ result'.value.some <=> slot[c].some
              /\ slot[c].some => result'.value.v = ReportOf(slot'[c].v)]_vars

\* get_report has returned the counters of a touched state that is still installed
GetReportReadsOnlyWitness ==
    /\ result.op = "get_report"
    /\ result.value.some
    /\ result.value.v.access_count = ToBits(2)
    /\ result.value.v.misses = ToBits(2)
    /\ slot[result.ch].some
    /\ slot[result.ch].v.epoch = ToBits(2)

\* C8: a dereference or prefetch on an unconfigured channel changes no slot
\* and is not counted: the counters of an installed state count only the
\* touches made on it
UnconfiguredPassThrough ==
    [][/\ \A c \in Channels : \A a \in Wrappers :
             (~slot[c].some /\ (Deref(c, a) \/ Prefetch(c, a))) =>
                 (slot' = slot /\ ~slot'[c].some)
       /\ \A c \in Channels :
             slot'[c].some =>
                 /\ slot'[c].v.epoch = ToBits(Len(log'[c]))
                 /\ slot'[c].v.hits = ToBits(Len(log'[c]) - Val(slot'[c].v.misses))]_vars

\* a wrapper of a finished channel has been dereferenced
UnconfiguredPassThroughWitness ==
    /\ result.op \in {"deref", "prefetch"}
    /\ finished[result.ch]
    /\ ~slot[result.ch].some

\* an operation on channel c
OpOn(c) ==
    \/ \E g \in ProviderGeoms : Configure(c, g)
    \/ GetReport(c)
    \/ Finish(c)
    \/ \E a \in Wrappers : Deref(c, a) \/ Prefetch(c, a)

\* C9: an operation on one channel leaves the other channels' slots (lines,
\* geometry, counters) unchanged
ChannelIsolation ==
    [][\A c \in Channels : OpOn(c) =>
          \A d \in Channels \ {c} : slot'[d] = slot[d] /\ log'[d] = log[d]]_vars

\* a wrapper of one channel has been touched while the other channel holds
\* a touched state
ChannelIsolationWitness ==
    /\ result.op = "deref"
    /\ slot[result.ch].some
    /\ slot[result.ch].v.epoch = ToBits(1)
    /\ \E d \in Channels \ {result.ch} :
          slot[d].some /\ slot[d].v.epoch = ToBits(2)

----------------------------------------------------------------------------
(* test::basic: one wrapper on the default channel *)

\* addresses at which the wrapper `foo` may be stored
BasicAddrs == {4200, 4202, 5224, 8296}

BasicInit ==
    /\ IdleProvider /\ IdleCache /\ IdlePack
    /\ step = 0
    /\ base \in BasicAddrs
    /\ result = NoCall /\ panicked = FALSE

\* GlobalCache::configure(CacheSpec::spec_8kib_32bit_2way())
BasicConfigure ==
    /\ result = NoCall
    /\ ConfigureCall("GlobalCache", spec_8kib_32bit_2way)

\* let _ = *foo
BasicDeref ==
    /\ slot["GlobalCache"].some
    /\ Len(log["GlobalCache"]) < MaxDerefs
    /\ WrapperCall("deref", "GlobalCache", ToBits(base))

\* Thrashe::prefetch(&foo)
BasicPrefetch ==
    /\ slot["GlobalCache"].some
    /\ Len(log["GlobalCache"]) < MaxDerefs
    /\ WrapperCall("prefetch", "GlobalCache", ToBits(base))

\* GlobalCache::finish()
BasicFinish ==
    /\ slot["GlobalCache"].some
    /\ FinishCall("GlobalCache")

BasicNext == BasicConfigure \/ BasicDeref \/ BasicPrefetch \/ BasicFinish

SpecBasic == BasicInit /\ [][BasicNext]_vars

\* C1: n >= 1 dereferences or prefetches of one wrapper on a freshly
\* configured preset channel are n touches of the wrapper's address, and
\* finish then reports access count n, misses 1 and hits n - 1
OneWrapperCounts ==
    [][/\ (BasicDeref \/ BasicPrefetch) =>
             /\ log'["GlobalCache"] = Append(log["GlobalCache"], ToBits(base))
             /\ slot'["GlobalCache"].v.epoch = ToBits(Len(log'["GlobalCache"]))
       /\ (BasicFinish /\ Len(log["GlobalCache"]) >= 1) =>
             /\ result'.value.some
             /\ result'.value.v.access_count = ToBits(Len(log["GlobalCache"]))
             /\ result'.value.v.misses = ToBits(1)
             /\ result'.value.v.hits = ToBits(Len(log["GlobalCache"]) - 1)
             /\ result'.value.v.spec = spec_8kib_32bit_2way]_vars

\* finish has reported the two dereferences of test::basic
OneWrapperCountsWitness ==
    /\ result.op = "finish"
    /\ result.value.some
    /\ result.value.v.access_count = ToBits(2)
    /\ result.value.v.hits = ToBits(1)
    /\ result.value.v.misses = ToBits(1)
    /\ ~slot["GlobalCache"].some

----------------------------------------------------------------------------
(* Concurrent touches and reports on the GlobalCache channel.  Every load,
   store and fetch_add of an atomic is one step; the steps of the threads
   interleave in any order (the Relaxed operations on one atomic are totally
   ordered, and no step reads two atomics).  A touch holds the read lock from
   its first step to its last, get_report holds it over its three loads;
   configure and finish hold the write lock, so they run when no other call
   is in flight. *)

\* calls begun on the channel: touches, configure, get_report and finish
MaxConcOps == 4

\* geometries handed to configure: 2 sets of 2 lines, 4 sets of 1 line
ConcGeoms == {TinySpec, DirectSpec}

\* addresses of the wrappers touched: under both geometries they fall into
\* one set and have different tags
ConcAddrs == {ToBits(4200), ToBits(8296)}

\* touch_address before its loop: split, set = &self.sets[set_index],
\* oldest = &set[0], oldest_epoch = Some(oldest.fetch_unpack().access)
begin_touch(state, address) ==
    LET sp  == split(state.spec, address)
        idx == Val(sp.set_index)
    IN [pc |-> "scan", tag |-> sp.tag, set_index |-> idx, i |-> 0, oldest |-> 0,
        oldest_epoch |-> Some(fetch_unpack(state.sets[idx][0]).access),
        val |-> {}, epoch |-> {}]

\* one iteration of `for line in set.iter()`: the load and the test of
\* touch_if_matches, and on Err the match on (oldest_epoch, e)
load_line(state, th) ==
    LET set   == state.sets[th.set_index]
        v     == set[th.i]
        ln    == unpack(v)
        next  == IF th.i + 1 \in DOMAIN set THEN "scan" ELSE "miss_epoch"
        kept  == [th EXCEPT !.pc = next, !.i = @ + 1]
        moved == [th EXCEPT !.pc = next, !.i = @ + 1, !.oldest = th.i,
                            !.oldest_epoch = None]
    IN IF ln.valid /\ ln.tag = th.tag
       THEN [th EXCEPT !.pc = "hit_epoch", !.val = v]
       ELSE IF ~th.oldest_epoch.some THEN kept
       ELSE IF ~ln.valid THEN moved
       ELSE IF Less(ln.access, th.oldest_epoch.v) THEN moved
       ELSE kept

\* let epoch = epoch_counter.fetch_add(1, Relaxed) << 1, in touch_if_matches
hit_epoch(state, th) ==
    [state |-> [state EXCEPT !.epoch = fetch_add(@)],
     th    |-> [th EXCEPT !.pc = "hit_store", !.epoch = Shl(state.epoch, 1, 32)]]

\* self.0.store((val & !mask) | epoch as u64, Relaxed), val being the word
\* loaded before the fetch_add
hit_store(state, th) ==
    [state |-> [state EXCEPT !.sets[th.set_index][th.i] =
                                (th.val \ (1..31)) \cup th.epoch],
     th    |-> [th EXCEPT !.pc = "hit_count"]]

\* a variant that leaves the hit counter alone
hit_count_skipped(state) == state

\* self.hits.fetch_add(1, Relaxed)
hit_count(state) == [state EXCEPT !.hits = fetch_add(@)]

\* let epoch = self.epoch.fetch_add(1, Relaxed) << 1, after the loop
miss_epoch(state, th) ==
    [state |-> [state EXCEPT !.epoch = fetch_add(@)],
     th    |-> [th EXCEPT !.pc = "miss_store", !.epoch = Shl(state.epoch, 1, 32)]]

\* oldest.pack_store(CacheLine { tag, access: epoch, valid: true })
miss_store(state, th) ==
    [state |-> [state EXCEPT !.sets[th.set_index][th.oldest] =
                   pack_store([tag |-> th.tag, access |-> th.epoch, valid |-> TRUE])],
     th    |-> [th EXCEPT !.pc = "miss_count"]]

\* a variant that counts the miss before the access
miss_count_twice(state) == [state EXCEPT !.misses = fetch_add(fetch_add(@))]

\* self.misses.fetch_add(1, Relaxed)
miss_count(state) == [state EXCEPT !.misses = fetch_add(@)]

\* no touch_address and no get_report holds the read lock
Quiescent ==
    /\ \A t \in ThreadIds : threads[t].pc = "idle"
    /\ reporter.pc = "idle"

ConcInit == Init

\* Deref::deref / prefetch of thread t: take the read lock; with a state
\* installed enter touch_address, else return at once
ConcBegin(t, address) ==
    LET opt == slot["GlobalCache"] IN
    /\ step + calls < MaxConcOps
    /\ threads[t].pc = "idle"
    /\ step' = step + 1
    /\ IF opt.some
       THEN /\ threads' = [threads EXCEPT ![t] = begin_touch(opt.v, address)]
            /\ overlapped' = (overlapped
                               \/ \E u \in ThreadIds : threads[u].pc # "idle")
            /\ reporter' = IF reporter.pc = "idle" THEN reporter
                           ELSE [reporter EXCEPT !.clean = FALSE]
       ELSE UNCHANGED <<threads, overlapped, reporter>>
    /\ UNCHANGED <<slot, result, log, finished, done, calls, ownedVars, packVars,
                   panicked, base>>

\* a step of thread t that changes the installed state and the thread's locals
ThreadStep(t, at, r) ==
    /\ threads[t].pc = at
    /\ slot' = [slot EXCEPT !["GlobalCache"].v = r.state]
    /\ threads' = [threads EXCEPT ![t] = r.th]
    /\ UNCHANGED <<result, log, finished, reporter, done, overlapped, calls,
                   ownedVars, packVars, panicked, step, base>>

\* the last step of touch_address in thread t: count, return, drop the guard
ThreadReturn(t, at, state) ==
    /\ threads[t].pc = at
    /\ slot' = [slot EXCEPT !["GlobalCache"].v = state]
    /\ threads' = [threads EXCEPT ![t] = IdleThread]
    /\ done' = done + 1
    /\ UNCHANGED <<result, log, finished, reporter, overlapped, calls,
                   ownedVars, packVars, panicked, step, base>>

ConcLoad(t) ==
    /\ threads[t].pc = "scan"
    /\ threads' = [threads EXCEPT ![t] = load_line(slot["GlobalCache"].v, threads[t])]
    /\ UNCHANGED <<slot, result, log, finished, reporter, done, overlapped, calls,
                   ownedVars, packVars, panicked, step, base>>

ConcHitEpoch(t) ==
    ThreadStep(t, "hit_epoch", hit_epoch(slot["GlobalCache"].v, threads[t]))

ConcHitStore(t) ==
    ThreadStep(t, "hit_store", hit_store(slot["GlobalCache"].v, threads[t]))

ConcHitCount(t) ==
    ThreadReturn(t, "hit_count", hit_count(slot["GlobalCache"].v))

ConcMissEpoch(t) ==
    ThreadStep(t, "miss_epoch", miss_epoch(slot["GlobalCache"].v, threads[t]))

ConcMissStore(t) ==
    ThreadStep(t, "miss_store", miss_store(slot["GlobalCache"].v, threads[t]))

ConcMissCount(t) ==
    ThreadReturn(t, "miss_count", miss_count(slot["GlobalCache"].v))

\* GlobalCache::configure(spec), under the write lock
ConcConfigure(spec) ==
    LET r == configure(slot["GlobalCache"], spec) IN
    /\ step + calls < MaxConcOps
    /\ Quiescent
    /\ calls' = calls + 1
    /\ result' = [op |-> "configure", ch |-> "GlobalCache", value |-> r.ret]
    /\ slot' = [slot EXCEPT !["GlobalCache"] = r.slot]
    /\ done' = 0
    /\ overlapped' = FALSE
    /\ UNCHANGED <<log, finished, threads, reporter, ownedVars, packVars,
                   panicked, step, base>>

\* GlobalCache::finish(), under the write lock
ConcFinish ==
    LET r == finish(slot["GlobalCache"]) IN
    /\ step + calls < MaxConcOps
    /\ Quiescent
    /\ calls' = calls + 1
    /\ result' = [op |-> "finish", ch |-> "GlobalCache", value |-> r.ret]
    /\ slot' = [slot EXCEPT !["GlobalCache"] = r.slot]
    /\ UNCHANGED <<log, finished, threads, reporter, done, overlapped,
                   ownedVars, packVars, panicked, step, base>>

\* GlobalCache::get_report(): take the read lock; with no state installed
\* return None, else make_report's first load, of epoch
ConcReportBegin ==
    LET opt   == slot["GlobalCache"]
        clean == \A t \in ThreadIds : threads[t].pc = "idle"
    IN /\ step + calls < MaxConcOps
       /\ reporter.pc = "idle"
       /\ calls' = calls + 1
       /\ IF opt.some
          THEN /\ reporter' = [pc |-> "hits", access_count |-> opt.v.epoch,
                               hits |-> {}, clean |-> clean]
               /\ UNCHANGED result
          ELSE /\ reporter' = [IdleReporter EXCEPT !.clean = clean]
               /\ result' = [op |-> "get_report", ch |-> "GlobalCache",
                             value |-> Absent]
       /\ UNCHANGED <<slot, log, finished, threads, done, overlapped,
                      ownedVars, packVars, panicked, step, base>>

\* make_report: let hits = self.hits.load(Relaxed)
ConcReportHits ==
    /\ reporter.pc = "hits"
    /\ reporter' = [reporter EXCEPT !.pc = "misses",
                                    !.hits = slot["GlobalCache"].v.hits]
    /\ UNCHANGED <<slot, result, log, finished, threads, done, overlapped, calls,
                   ownedVars, packVars, panicked, step, base>>

\* make_report: let misses = self.misses.load(Relaxed), and the return
ConcReportMisses ==
    LET st == slot["GlobalCache"].v IN
    /\ reporter.pc = "misses"
    /\ result' = [op |-> "get_report", ch |-> "GlobalCache",
                  value |-> [some |-> TRUE,
                             v |-> [access_count |-> reporter.access_count,
                                    hits         |-> reporter.hits,
                                    misses       |-> st.misses,
                                    spec         |-> st.spec]]]
    /\ reporter' = [IdleReporter EXCEPT !.clean = reporter.clean]
    /\ UNCHANGED <<slot, log, finished, threads, done, overlapped, calls,
                   ownedVars, packVars, panicked, step, base>>

ConcNext ==
    \/ \E t \in ThreadIds, address \in ConcAddrs : ConcBegin(t, address)
    \/ \E t \in ThreadIds :
          \/ ConcLoad(t)
          \/ ConcHitEpoch(t)
          \/ ConcHitStore(t)
          \/ ConcHitCount(t)
          \/ ConcMissEpoch(t)
          \/ ConcMissStore(t)
          \/ ConcMissCount(t)
    \/ \E spec \in ConcGeoms : ConcConfigure(spec)
    \/ ConcFinish
    \/ ConcReportBegin
    \/ ConcReportHits
    \/ ConcReportMisses

SpecConc == ConcInit /\ [][ConcNext]_vars

\* C11: while a state is installed no step changes its geometry or its set
\* and line counts, and each counter stays or grows by one; the touches
\* completed on the state number hits + misses, the access counter is that
\* number plus the touches in flight that have taken their epoch; and the
\* report of finish or of a replacing configure shows access count = hits +
\* misses = number of touches performed on the state, for every interleaving
CountersExact ==
    [][LET old == slot["GlobalCache"]
           new == slot'["GlobalCache"]
           counted == {t \in ThreadIds : threads'[t].pc \in
                          {"hit_store", "hit_count", "miss_store", "miss_count"}}
       IN /\ (old.some /\ new.some /\ calls' = calls) =>
                /\ new.v.spec = old.v.spec
                /\ DOMAIN new.v.sets = 0..(set_num(old.v.spec) - 1)
                /\ \A i \in DOMAIN new.v.sets :
                       DOMAIN new.v.sets[i] = 0..(lines_per_set(old.v.spec) - 1)
                /\ \A f \in {"epoch", "hits", "misses"} :
                       new.v[f] \in {old.v[f], fetch_add(old.v[f])}
                       /\ ~Less(new.v[f], old.v[f])
          /\ new.some =>
                /\ Val(new.v.hits) + Val(new.v.misses) = done'
                /\ Val(new.v.epoch) = done' + Cardinality(counted)
          /\ (/\ old.some
              /\ calls' # calls
              /\ (ConcFinish \/ \E spec \in ConcGeoms : ConcConfigure(spec))) =>
                /\ result'.value.some
                /\ result'.value.v.access_count = ToBits(done)
                /\ Val(result'.value.v.hits) + Val(result'.value.v.misses) = done
                /\ result'.value.v.spec = old.v.spec]_vars

\* finish has reported two touches that ran at the same time, one a hit and
\* one a miss
CountersExactWitness ==
    /\ result.op = "finish"
    /\ result.value.some
    /\ overlapped
    /\ done = 2
    /\ result.value.v.access_count = ToBits(2)
    /\ result.value.v.hits # {}
    /\ result.value.v.misses # {}

\* C16: the store of a hit's update leaves the line with the tag and the
\* valid bit it held immediately before the store
HitStoreKeepsTag ==
    [][\A t \in ThreadIds :
          LET th     == threads[t]
              before == unpack(slot["GlobalCache"].v.sets[th.set_index][th.i])
              after  == unpack(slot'["GlobalCache"].v.sets[th.set_index][th.i])
          IN ConcHitStore(t)
             => (after.tag = before.tag /\ after.valid = before.valid)]_vars

\* C17: no two valid lines of one set hold the same tag
NoDuplicateTags ==
    slot["GlobalCache"].some =>
        \A i \in DOMAIN slot["GlobalCache"].v.sets :
            LET set == slot["GlobalCache"].v.sets[i] IN
            \A l, m \in DOMAIN set :
                (l # m /\ unpack(set[l]).valid /\ unpack(set[m]).valid)
                    => unpack(set[l]).tag # unpack(set[m]).tag

\* the report get_report returned last shows access count = hits + misses
ReportAddsUp ==
    Val(result.value.v.access_count)
        = Val(result.value.v.hits) + Val(result.value.v.misses)

\* C20 as stated: every report returned by get_report shows access count =
\* hits + misses, also when touches are in flight while it is made
ReportConsistent ==
    (result.op = "get_report" /\ result.value.some) => ReportAddsUp

\* C20: a report returned by a get_report during which no touch was in
\* flight shows access count = hits + misses
QuietReportConsistent ==
    (/\ result.op = "get_report"
     /\ result.value.some
     /\ reporter.pc = "idle"
     /\ reporter.clean)
        => ReportAddsUp

\* get_report has returned the counts of two completed touches, none in
\* flight while it ran
QuietReportWitness ==
    /\ result.op = "get_report"
    /\ result.value.some
    /\ reporter.pc = "idle"
    /\ reporter.clean
    /\ done = 2
    /\ result.value.v.access_count = ToBits(2)

====
